---- MODULE Spec2Model ----
(***************************************************************************)
(* A model of app.py: the startup sweep of the download directory, the     *)
(* /download handler (validation, yt-dlp fetch, send_file, cleanup on      *)
(* close) run by concurrent workers, and the stateless /search and /info   *)
(* handlers.                                                               *)
(*                                                                         *)
(* Strings that the code inspects are sequences of tokens: a token is a    *)
(* run of characters the code treats as a unit ("https:", "//",           *)
(* "youtube.com", " ", ...).  A path DOWNLOADS_DIR/<id>.<ext> is the pair  *)
(* <<id, ext>>.                                                            *)
(***************************************************************************)
EXTENDS Integers, Sequences, FiniteSets, TLC

\* ----------------------------------------------------------------- bounds
\* Number of /download requests of a run (each handled by its own worker).
NReq == 2
\* Largest number of entries a previous run left in the download directory.
MaxStray == 2

\* ------------------------------------------------------------- value sets
Slots == 1..NReq

\* Video identifiers and container extensions the extractor can report.
Ids == {"a", "b"}
NativeExts == {"m4a", "mp4"}
Exts == NativeExts \cup {"mp3"}
VideoPaths == Ids \X Exts
\* An entry of the directory that is not a file yt-dlp writes.
StrayNames == {<<"stray", "">>}
Names == VideoPaths \cup StrayNames
\* Kind of a directory entry: os.remove succeeds on "file" only.
Kinds == {"absent", "file", "dir"}

NoFile == <<>>
NoInfo == [id |-> "", ext |-> ""]
PyNone == "<None>"
\* A key that the JSON body does not carry.
Absent == "<absent>"
AbsentSeq == <<Absent>>

\* Error texts of the extractor (str(e) of the exception it raises).
ErrTexts == {"Sign in to confirm you are not a bot", "Video unavailable"}
FileNotFoundText == "No such file or directory"

\* ---------------------------------------------------------- request inputs
\* "https://youtu.be/x"
UrlShort == <<"https:", "//", "youtu.be", "/", "x">>
\* "not-a-url"
UrlNotAUrl == <<"x">>
\* "https://youtube.com@evil.com/x": userinfo youtube.com, host evil.com
UrlUserinfo == <<"https:", "//", "youtube.com", "@", "evil.com", "/", "x">>
Urls ==
    { AbsentSeq, <<>>, <<" ">>, UrlNotAUrl, UrlShort,
      <<" ", "https:", "//", "www.", "youtube.com", "/", "x", " ">>,
      <<"youtube.com", "/", "x">>,
      <<"https:", "//", "evil.com", "/", "youtube.com">>,
      <<"https:", "//", "[", "youtube.com", "/", "x">>,
      UrlUserinfo }
Formats == {Absent, "mp3", "mp4", "webm"}
Itags == {Absent, "", "22"}
\* JSON bodies of POST /download
Bodies == [url : Urls, format : Formats, itag : Itags]
\* The bodies of the concurrent specification: one per download mode, and
\* one that is rejected.
CoreBodies ==
    { [url |-> UrlShort, format |-> "mp3", itag |-> Absent],
      [url |-> UrlShort, format |-> "mp4", itag |-> "22"],
      [url |-> UrlShort, format |-> Absent, itag |-> Absent],
      [url |-> UrlNotAUrl, format |-> Absent, itag |-> Absent] }

\* ------------------------------------------------------------------ state
VARIABLES
    phase,      \* position of __main__: "sweep" (lines 193-194), "serving" (196)
                \* or "crashed" (an exception left the loop)
    listing,    \* os.listdir(DOWNLOADS_DIR) of line 193
    swept,      \* entries of the listing the loop has passed to cleanup_file
    logged,     \* entries for which the loop's cleanup_file logged an error
    dir,        \* the download directory: entry name -> kind
    leftover,   \* entries of the previous run that are still there (history)
    cookies,    \* COOKIES_FILE: "unset", "missing" (set, no such file), "present"
    req,        \* per worker: the /download request it handles
    query       \* the last /search or /info exchange

vars == <<phase, listing, swept, logged, dir, leftover, cookies, req, query>>

\* ------------------------------------------------------- python semantics
\* dict.get(key, default), for a value that is a string of tokens
GetSeq(value, default) == IF value = AbsentSeq THEN default ELSE value

\* dict.get(key, default), for a value that is one token
Get(value, default) == IF value = Absent THEN default ELSE value

RECURSIVE LStrip(_)
LStrip(s) == IF s # <<>> /\ Head(s) = " " THEN LStrip(Tail(s)) ELSE s

RECURSIVE RStrip(_)
RStrip(s) ==
    IF s # <<>> /\ s[Len(s)] = " " THEN RStrip(SubSeq(s, 1, Len(s) - 1)) ELSE s

\* str.strip()
Strip(s) == LStrip(RStrip(s))

Contains(s, tok) == \E i \in 1..Len(s) : s[i] = tok

\* The tokens of s before the first token of stops.
RECURSIVE Upto(_, _)
Upto(s, stops) ==
    IF s = <<>> \/ Head(s) \in stops THEN <<>>
    ELSE <<Head(s)>> \o Upto(Tail(s), stops)

\* urlparse(url): [raises, netloc].  A scheme is split off, a netloc is read
\* only after "//" and runs to the first "/"; an unmatched "[" in it raises
\* ValueError.
urlparse(url) ==
    LET rest == IF url # <<>> /\ Head(url) = "https:" THEN Tail(url) ELSE url
        netloc == IF rest # <<>> /\ Head(rest) = "//"
                  THEN Upto(Tail(rest), {"/"}) ELSE <<>>
    IN  [raises |-> Contains(netloc, "["), netloc |-> netloc]

domains == {"youtube.com", "youtu.be"}

is_valid_youtube_url(url) ==
    LET parsed == urlparse(url)
    IN  IF parsed.raises THEN FALSE
        ELSE \E domain \in domains : Contains(parsed.netloc, domain)

\* os.remove(path): [raised, dir]
os_remove(d, path) ==
    IF d[path] = "file"
    THEN [raised |-> FALSE, dir |-> [d EXCEPT ![path] = "absent"]]
    ELSE [raised |-> TRUE, dir |-> d]

\* Mutant of cleanup_file: no existence test and no try/except.
cleanup_file_unguarded(d, filename) ==
    LET r == os_remove(d, filename)
    IN  [raised |-> r.raised, logged |-> "", dir |-> r.dir]

\* Mutant of cleanup_file: os.remove is not wrapped in try/except.
cleanup_file_reraising(d, filename) ==
    IF d[filename] # "absent"
    THEN LET r == os_remove(d, filename)
         IN  [raised |-> r.raised, logged |-> IF r.raised THEN "" ELSE "info",
              dir |-> r.dir]
    ELSE [raised |-> FALSE, logged |-> "", dir |-> d]

\* cleanup_file(filename): [raised, logged, dir]
cleanup_file(d, filename) ==
    IF d[filename] # "absent"
    THEN LET r == os_remove(d, filename)
         IN  IF r.raised
             THEN [raised |-> FALSE, logged |-> "error", dir |-> r.dir]
             ELSE [raised |-> FALSE, logged |-> "info", dir |-> r.dir]
    ELSE [raised |-> FALSE, logged |-> "", dir |-> d]

\* ------------------------------------------------------------------- Init
IdleReq ==
    [pc |-> "idle", data |-> [url |-> <<>>, format |-> "", itag |-> ""],
     url |-> <<>>, format_type |-> "", itag |-> "",
     cookiefile |-> FALSE, format |-> "", postprocess |-> FALSE,
     info |-> NoInfo, filename |-> NoFile, status |-> 0, error |-> "",
     details |-> Absent, raised |-> "", partial |-> NoFile,
     mimetype |-> "", on_close |-> 0, releases |-> 0, fetches |-> 0,
     ended |-> ""]

NoQuery ==
    [ep |-> "", input |-> <<>>, status |-> 0, error |-> "",
     details |-> Absent, adapter |-> 0, raised |-> "", raw |-> <<>>,
     result |-> <<>>]

Present(d) == {n \in Names : d[n] # "absent"}

\* The state at line 193: the directory exists and holds what the previous
\* run left (files under any name, or a subdirectory under a stray name).
Init ==
    /\ phase = "sweep"
    /\ dir \in {d \in [Names -> Kinds] :
                  /\ Cardinality(Present(d)) <= MaxStray
                  /\ \A n \in VideoPaths : d[n] # "dir"}
    /\ listing = Present(dir)
    /\ swept = {}
    /\ logged = {}
    /\ leftover = Present(dir)
    /\ cookies \in {"unset", "missing", "present"}
    /\ req = [r \in Slots |-> IdleReq]
    /\ query = NoQuery

\* ------------------------------------------------------- __main__ (192-196)
\* One iteration of the loop of lines 193-194.
SweepStep(n) ==
    /\ phase = "sweep"
    /\ n \in listing \ swept
    /\ LET c == cleanup_file(dir, n)
       IN  /\ dir' = c.dir
           /\ leftover' = leftover \cap Present(c.dir)
           /\ phase' = IF c.raised THEN "crashed" ELSE phase
           /\ logged' = IF c.logged = "error" THEN logged \cup {n} ELSE logged
    /\ swept' = swept \cup {n}
    /\ UNCHANGED <<listing, cookies, req, query>>

\* Mutant of SweepDone: app.run does not wait for the loop.
SweepNotAwaited == TRUE

\* The for loop of line 193 has gone through the listing.
SweepDone == swept = listing

\* app.run (line 196), reached when the loop has ended; the loop's listing
\* is not used again.
AppRun ==
    /\ phase = "sweep"
    /\ SweepDone
    /\ phase' = "serving"
    /\ listing' = {}
    /\ swept' = {}
    /\ UNCHANGED <<logged, dir, leftover, cookies, req, query>>

\* ------------------------------------------------ yt-dlp (lines 165-167)
DefaultFormat == "bestvideo[ext=mp4]+bestaudio[ext=m4a]/best[ext=mp4]"

\* Containers a format selection can resolve to.
FormatExts(format) == IF format = DefaultFormat THEN {"mp4"} ELSE NativeExts

\* The directory after a download of video id in container ext: the file is
\* written under outtmpl, and FFmpegExtractAudio replaces it by the .mp3.
Downloaded(d, id, ext, postprocess) ==
    IF postprocess
    THEN [[d EXCEPT ![<<id, ext>>] = "absent"] EXCEPT ![<<id, "mp3">>] = "file"]
    ELSE [d EXCEPT ![<<id, ext>>] = "file"]

\* YoutubeDL(ydl_opts).extract_info(url, download=True): every outcome the
\* extractor can produce.  A failure raises with some error text and leaves
\* the directory as it was or with a file it had begun under outtmpl.
extract_info_download(d, format, postprocess) ==
    { [ok |-> TRUE, err |-> "", info |-> [id |-> id, ext |-> ext],
       dir |-> Downloaded(d, id, ext, postprocess)] :
         id \in Ids, ext \in FormatExts(format) }
    \cup
    { [ok |-> FALSE, err |-> e, info |-> NoInfo, dir |-> d] : e \in ErrTexts }
    \cup
    { [ok |-> FALSE, err |-> e, info |-> NoInfo,
       dir |-> [d EXCEPT ![<<p[1], p[2]>>] = "file"]] :
         e \in ErrTexts, p \in Ids \X FormatExts(format) }

\* Mutant of prepare_filename: an outtmpl without %(id)s.
prepare_filename_fixed_stem(info) == <<"a", info.ext>>

\* ydl.prepare_filename(info) under outtmpl DOWNLOADS_DIR/%(id)s.%(ext)s
prepare_filename(info) == <<info.id, info.ext>>

\* os.path.splitext(filename)[0] + '.mp3'
mp3_filename(filename) == <<filename[1], "mp3">>

\* Mutant of final_filename: the extension is not rewritten for mp3.
final_filename_native(info, format_type) == prepare_filename(info)

\* The managed file of a request (lines 167-169).
final_filename(info, format_type) ==
    IF format_type = "mp3" THEN mp3_filename(prepare_filename(info))
    ELSE prepare_filename(info)

\* ------------------------------------------- download_video (118-186)
\* Truth value of itag in "elif itag".
Truthy(v) == v # PyNone /\ v # ""

\* Mutant of use_cookiefile: the path is passed whenever it is set.
use_cookiefile_if_set(c) == c # "unset"

\* Lines 145-149: the cookie file is passed iff the path is set and exists.
use_cookiefile(c) == c = "present"

\* Mutant of select_format: the itag is looked at first.
select_format_itag_first(format_type, itag) ==
    IF Truthy(itag) THEN [format |-> itag, postprocess |-> FALSE]
    ELSE IF format_type = "mp3"
    THEN [format |-> "bestaudio/best", postprocess |-> TRUE]
    ELSE [format |-> DefaultFormat, postprocess |-> FALSE]

\* Lines 151-163: ydl_opts['format'] and whether the mp3 postprocessor is set.
select_format(format_type, itag) ==
    IF format_type = "mp3" THEN [format |-> "bestaudio/best", postprocess |-> TRUE]
    ELSE IF Truthy(itag) THEN [format |-> itag, postprocess |-> FALSE]
    ELSE [format |-> DefaultFormat, postprocess |-> FALSE]

\* Line 125: the request is rejected.
bad_url(url) == url = <<>> \/ ~is_valid_youtube_url(url)

\* Line 174
mimetype_of(format_type) == IF format_type = "mp3" THEN "audio/mp3" ELSE "video/mp4"

\* The state a request is in after each step of the handler.
\* Lines 125-126
after_validate(bad) == IF bad THEN "Errored" ELSE "Fetching"

\* Mutant of after_fetch: the extractor's exception is not caught, and the
\* worker ends without a response.
after_fetch_uncaught(ok) == IF ok THEN "Finalizing" ELSE "Crashed"

\* Lines 165-169, and 184-186 when the extractor raised
after_fetch(ok) == IF ok THEN "Finalizing" ELSE "Errored"

\* Lines 171-182, and 184-186 when send_file raised
after_send_file(found) == IF found THEN "Streaming" ELSE "Errored"

\* Mutant of after_close: a transmission error is answered with an error.
after_close_error(how) == IF how = "tx_error" THEN "Errored" ELSE "Released"

\* The response has been returned: closing it runs the callbacks, and no
\* handler code follows.
after_close(how) == "Released"

\* Mutant of after_failed_fetch: the except branch removes what was written.
after_failed_fetch_cleaned(before, left) == before

\* Lines 184-186: the except branch leaves the directory as the extractor
\* left it.
after_failed_fetch(before, left) == left

\* The file a failed fetch added to the directory, if any.
partial_of(before, left) ==
    IF \E n \in Names : before[n] # left[n]
    THEN CHOOSE n \in Names : before[n] # left[n]
    ELSE NoFile

\* A worker takes a POST /download with JSON body {url, format, itag}.
Receive(r, body) ==
    /\ phase = "serving"
    /\ req[r].pc = "idle"
    /\ req' = [req EXCEPT ![r] =
                 [IdleReq EXCEPT !.pc = "Validating",
                                 !.data = body]]
    /\ UNCHANGED <<phase, listing, swept, logged, dir, leftover, cookies, query>>

\* Lines 120-163: read the body, validate the URL, build ydl_opts.
Validate(r) ==
    /\ req[r].pc = "Validating"
    /\ LET url == Strip(GetSeq(req[r].data.url, <<>>))
           format_type == Get(req[r].data.format, "mp4")
           itag == Get(req[r].data.itag, PyNone)
           sel == select_format(format_type, itag)
       IN  req' = [req EXCEPT ![r] =
             IF bad_url(url)
             THEN [@ EXCEPT !.pc = after_validate(TRUE), !.url = url,
                            !.format_type = format_type, !.itag = itag,
                            !.status = 400, !.error = "Invalid YouTube URL"]
             ELSE [@ EXCEPT !.pc = after_validate(FALSE), !.url = url,
                            !.format_type = format_type, !.itag = itag,
                            !.cookiefile = use_cookiefile(cookies),
                            !.format = sel.format,
                            !.postprocess = sel.postprocess]]
    /\ UNCHANGED <<phase, listing, swept, logged, dir, leftover, cookies, query>>

\* Line 186: the body of the 500 response.
download_failure(e) == [error |-> "Download failed", details |-> e]

\* Lines 165-169, and 184-186 when the extractor raises.
Fetch(r) ==
    /\ req[r].pc = "Fetching"
    /\ \E out \in extract_info_download(dir, req[r].format, req[r].postprocess) :
         /\ dir' = IF out.ok THEN out.dir ELSE after_failed_fetch(dir, out.dir)
         /\ leftover' = {n \in leftover : dir'[n] = dir[n]}
         /\ req' = [req EXCEPT ![r] =
               IF out.ok
               THEN [@ EXCEPT !.pc = after_fetch(TRUE), !.fetches = @ + 1,
                              !.info = out.info,
                              !.filename = final_filename(out.info, req[r].format_type)]
               ELSE [@ EXCEPT !.pc = after_fetch(FALSE), !.fetches = @ + 1,
                              !.partial = partial_of(dir, out.dir),
                              !.status = 500,
                              !.error = download_failure(out.err).error,
                              !.details = download_failure(out.err).details,
                              !.raised = out.err]]
    /\ UNCHANGED <<phase, listing, swept, logged, cookies, query>>

\* response.call_on_close(cleanup), lines 178-180: one more callback.
call_on_close(on_close) == on_close + 1

\* Lines 171-182: send_file opens the file; FileNotFoundError goes to 184-186.
SendFile(r) ==
    /\ req[r].pc = "Finalizing"
    /\ req' = [req EXCEPT ![r] =
          IF dir[req[r].filename] = "file"
          THEN [@ EXCEPT !.pc = after_send_file(TRUE), !.status = 200,
                         !.mimetype = mimetype_of(req[r].format_type),
                         !.on_close = call_on_close(@)]
          ELSE [@ EXCEPT !.pc = after_send_file(FALSE), !.status = 500,
                         !.error = download_failure(FileNotFoundText).error,
                         !.details = download_failure(FileNotFoundText).details]]
    /\ UNCHANGED <<phase, listing, swept, logged, dir, leftover, cookies, query>>

\* The ways a stream ends.
Endings == {"complete", "client_abort", "tx_error"}

\* Mutant of callback_runs: the callbacks run on normal completion only.
callback_runs_on_success(how) == IF how = "complete" THEN 1 ELSE 0

\* How many times each registered callback runs when the response is closed
\* after the stream ended in way how.
callback_runs(how) == 1

\* Mutant of run_cleanups: the callback clears the whole directory.
run_cleanups_everything(d, filename, n) ==
    IF n = 0 THEN d
    ELSE [x \in Names |-> IF d[x] = "file" THEN "absent" ELSE d[x]]

\* Response.close(): the registered callbacks run, each cleanup_file(filename).
RECURSIVE run_cleanups(_, _, _)
run_cleanups(d, filename, n) ==
    IF n = 0 THEN d ELSE run_cleanups(cleanup_file(d, filename).dir, filename, n - 1)

\* The stream of a response ends and the server closes the response.
StreamEnd(r, how) ==
    /\ req[r].pc = "Streaming"
    /\ LET n == req[r].on_close * callback_runs(how)
       IN  /\ dir' = run_cleanups(dir, req[r].filename, n)
           /\ leftover' = leftover \cap Present(dir')
           /\ req' = [req EXCEPT ![r] =
                 [@ EXCEPT !.pc = after_close(how), !.releases = @ + n,
                           !.ended = how]]
    /\ UNCHANGED <<phase, listing, swept, logged, cookies, query>>

\* ------------------------------------------------------- specifications
\* Concurrent downloads: every worker may take a request.
Next ==
    \/ \E n \in Names : SweepStep(n)
    \/ AppRun
    \/ \E r \in Slots, body \in CoreBodies : Receive(r, body)
    \/ \E r \in Slots : Validate(r)
    \/ \E r \in Slots : Fetch(r)
    \/ \E r \in Slots : SendFile(r)
    \/ \E r \in Slots, how \in Endings : StreamEnd(r, how)

\* ------------------------------------------------ search_video (37-73)
\* Queries of POST /search: missing, empty, blank, "lofi", " lofi ".
Queries == {AbsentSeq, <<>>, <<" ">>, <<"lofi">>, <<" ", "lofi", " ">>}

\* What a flat search can return in 'entries': videos, and None for an
\* entry the extractor could not resolve.
NoEntry == [id |-> PyNone]

\* The number in 'ytsearch20' (lines 48 and 53).
search_limit == 20

\* What there is to find for a query: nothing, one video, a few videos with
\* an unresolved entry among them, and more videos than the search asks for,
\* with and without an unresolved entry.
SearchFound ==
    { <<>>, <<[id |-> "a"]>>, <<[id |-> "b"], NoEntry, [id |-> "a"]>>,
      [i \in 1..(search_limit + 2) |->
          IF i = 3 THEN NoEntry ELSE [id |-> IF i % 2 = 0 THEN "a" ELSE "b"]],
      [i \in 1..(search_limit + 2) |-> [id |-> IF i % 2 = 0 THEN "a" ELSE "b"]] }

\* Mutant of ytsearch: the extractor ignores the number of the prefix.
ytsearch_unlimited(n, found) == found

\* extract_info("ytsearchN:query"): the first N results.
ytsearch(n, found) ==
    SubSeq(found, 1, IF Len(found) < n THEN Len(found) ELSE n)

\* result.get('entries', []) of line 54
SearchEntries == { ytsearch(search_limit, found) : found \in SearchFound }

\* Lines 56-67
RECURSIVE format_videos(_)
format_videos(videos) ==
    IF videos = <<>> THEN <<>>
    ELSE IF Head(videos) = NoEntry THEN format_videos(Tail(videos))
    ELSE <<[id |-> Head(videos).id,
            url |-> <<"https://youtu.be/", Head(videos).id>>]>>
         \o format_videos(Tail(videos))

\* Line 73: the body of the 500 response.
search_failure(e) == [error |-> "Search failed", details |-> e]

search_video(q) ==
    /\ phase = "serving"
    /\ LET text == Strip(GetSeq(q, <<>>))
           base == [NoQuery EXCEPT !.ep = "search", !.input = q]
       IN  IF text = <<>>
           THEN query' = [base EXCEPT !.status = 400,
                                      !.error = "No search query provided"]
           ELSE \/ \E entries \in SearchEntries :
                     query' = [base EXCEPT !.status = 200, !.adapter = 1,
                                           !.raw = entries,
                                           !.result = format_videos(entries)]
                \/ \E e \in ErrTexts :
                     query' = [base EXCEPT !.status = 500, !.adapter = 1,
                                           !.error = search_failure(e).error,
                                           !.details = search_failure(e).details,
                                           !.raised = e]
    /\ UNCHANGED <<phase, listing, swept, logged, dir, leftover, cookies, req>>

\* --------------------------------------------- get_video_info (75-116)
\* What the extractor can return in 'formats': a video format, an audio-only
\* format (vcodec "none"), a format without a stream location, one with an
\* empty stream location, and one that does not name its video codec.
FmtVideo == [format_id |-> "22", url |-> "u22", vcodec |-> "avc1"]
FmtAudio == [format_id |-> "140", url |-> "u140", vcodec |-> "none"]
FmtNoUrl == [format_id |-> "sb0", url |-> PyNone, vcodec |-> "avc1"]
FmtEmptyUrl == [format_id |-> "sb1", url |-> "", vcodec |-> "avc1"]
FmtNoCodec == [format_id |-> "18", url |-> "u18", vcodec |-> PyNone]
FmtAudioNoUrl == [format_id |-> "139", url |-> PyNone, vcodec |-> "none"]
InfoFormats ==
    { <<>>, <<FmtAudio, FmtVideo, FmtNoUrl, FmtVideo>>,
      <<FmtNoCodec, FmtAudio, FmtEmptyUrl, FmtVideo, FmtAudioNoUrl>>,
      <<FmtAudio, FmtNoUrl>> }

\* Mutant of keeps_format: the video codec is not looked at.
keeps_format_any_codec(f) == f.url # PyNone /\ f.url # ""

\* Line 94
keeps_format(f) == f.url # PyNone /\ f.url # "" /\ f.vcodec # "none"

\* Lines 92-102
RECURSIVE list_formats(_)
list_formats(formats) ==
    IF formats = <<>> THEN <<>>
    ELSE IF keeps_format(Head(formats))
    THEN <<[itag |-> Head(formats).format_id, url |-> Head(formats).url]>>
         \o list_formats(Tail(formats))
    ELSE list_formats(Tail(formats))

\* Mutant of info_failure: the error text is forwarded, as /search does.
info_failure_verbose(e) == [error |-> "Could not fetch video info", details |-> e]

\* Line 116: the body of the 500 response carries no details.
info_failure(e) == [error |-> "Could not fetch video info", details |-> Absent]

get_video_info(u) ==
    /\ phase = "serving"
    /\ LET url == Strip(GetSeq(u, <<>>))
           base == [NoQuery EXCEPT !.ep = "info", !.input = u]
       IN  IF bad_url(url)
           THEN query' = [base EXCEPT !.status = 400,
                                      !.error = "Invalid YouTube URL"]
           ELSE \/ \E formats \in InfoFormats :
                     query' = [base EXCEPT !.status = 200, !.adapter = 1,
                                           !.raw = formats,
                                           !.result = list_formats(formats)]
                \/ \E e \in ErrTexts :
                     query' = [base EXCEPT !.status = 500, !.adapter = 1,
                                           !.error = info_failure(e).error,
                                           !.details = info_failure(e).details,
                                           !.raised = e]
    /\ UNCHANGED <<phase, listing, swept, logged, dir, leftover, cookies, req>>

\* COOKIES_FILE is not set.
InitCore == Init /\ cookies = "unset"

Spec == InitCore /\ [][Next]_vars

\* Every worker runs on: straight-line handler code is executed, the
\* extractor call returns or raises, and every stream ends.
SpecFair ==
    /\ Spec
    /\ \A r \in Slots :
         /\ WF_vars(Validate(r))
         /\ WF_vars(Fetch(r))
         /\ WF_vars(SendFile(r))
         /\ WF_vars(\E how \in Endings : StreamEnd(r, how))

\* One download worker and the query handlers, over every request body, in
\* a directory that starts empty.
InputSlots == {1}

InitInputs == Init /\ Present(dir) = {}

NextInputs ==
    \/ AppRun
    \/ \E r \in InputSlots, body \in Bodies : Receive(r, body)
    \/ \E r \in InputSlots : Validate(r)
    \/ \E r \in InputSlots : Fetch(r)
    \/ \E r \in InputSlots : SendFile(r)
    \/ \E r \in InputSlots, how \in Endings : StreamEnd(r, how)
    \/ \E q \in Queries : search_video(q)
    \/ \E u \in Urls : get_video_info(u)

SpecInputs == InitInputs /\ [][NextInputs]_vars

\* ================================================================ claims
InFlight(r) == req[r].pc \in {"Validating", "Fetching", "Finalizing", "Streaming"}
Handled(r) == req[r].pc # "idle"
PastValidation(r) == req[r].pc \notin {"idle", "Validating"}
Fetched(r) == req[r].pc \in {"Finalizing", "Streaming", "Released"}

\* C1 (as claimed): whenever the service is serving and no download is in
\* flight, the download directory holds no file of a request, whatever the
\* outcome of the requests that completed.
C1_NoFileOutlivesItsRequest ==
    (phase = "serving" /\ \A r \in Slots : ~InFlight(r))
        => \A p \in VideoPaths : dir[p] = "absent"

RECURSIVE AfterLastAt(_)
AfterLastAt(s) == IF Contains(s, "@") THEN AfterLastAt(Tail(s)) ELSE s

HostAllowed(url) ==
    \E domain \in domains : Contains(AfterLastAt(urlparse(url).netloc), domain)

\* The URL of a body is one the claim says is rejected.
MustReject(u) ==
    LET url == Strip(GetSeq(u, <<>>)) IN url = <<>> \/ ~HostAllowed(url)

\* C3 (as claimed): a rejected request made no adapter call and left the
\* directory as it was, and every /download and /info whose URL is missing,
\* blank or has a host outside the allow-list, and every /search whose query
\* is missing or blank, is rejected with 400 before any adapter call.
C3_BadRequestBeforeAdapter ==
    /\ \A r \in Slots :
         /\ (req[r].status = 400) => (req[r].fetches = 0 /\ Present(dir) = {})
         /\ (PastValidation(r) /\ MustReject(req[r].data.url))
                => (req[r].status = 400 /\ req[r].fetches = 0)
    /\ query.status = 400 => query.adapter = 0
    /\ (query.ep = "info" /\ MustReject(query.input))
           => (query.status = 400 /\ query.adapter = 0)
    /\ (query.ep = "search" /\ Strip(GetSeq(query.input, <<>>)) = <<>>)
           => (query.status = 400 /\ query.adapter = 0)

\* C4 (as claimed): no request is handled while an entry of the previous
\* run is still in the directory.
C4_NoLeftoverWhenServing ==
    (\E r \in Slots : Handled(r)) => leftover = {}

\* C4 (amended): requests are handled only after the loop has passed every
\* listed entry to cleanup_file; of the previous run's entries, only those
\* that os.remove cannot remove are then still in the directory.
C4_SweepBeforeServing ==
    /\ (\E r \in Slots : Handled(r)) => phase = "serving"
    /\ phase = "serving" => \A n \in leftover : dir[n] = "dir"
    /\ phase = "sweep" => (swept \subseteq listing /\
                           \A n \in swept : dir[n] \in {"absent", "dir"})

\* C4 witness: the loop has removed a listed file and is about to start the
\* service.
C4_Witness ==
    /\ phase = "sweep" /\ SweepDone
    /\ \E n \in listing : dir[n] = "absent"

\* C5: on every directory the service reaches and for every path,
\* cleanup_file does not raise, a second call changes nothing after the
\* first, no other entry is touched, and a missing path is a no-op.
C5_CleanupIdempotent ==
    \A p \in Names :
        LET once == cleanup_file(dir, p)
            twice == cleanup_file(once.dir, p)
        IN  /\ ~once.raised /\ ~twice.raised
            /\ twice.dir = once.dir
            /\ \A q \in Names \ {p} : once.dir[q] = dir[q]
            /\ dir[p] = "absent" => once.dir = dir
            /\ dir[p] = "file" => once.dir[p] = "absent"

\* C5 witness: two requests have released the same path (the second call
\* found it gone) while another entry is still in the directory.
C5_Witness ==
    \E r1, r2 \in Slots :
        /\ r1 # r2
        /\ req[r1].pc = "Released" /\ req[r2].pc = "Released"
        /\ req[r1].filename = req[r2].filename
        /\ dir[req[r1].filename] = "absent"
        /\ Present(dir) # {}

\* Request r is about to stream or streams its file, which is on disk.
HoldsFile(r) ==
    req[r].pc \in {"Finalizing", "Streaming"} /\ dir[req[r].filename] = "file"

OwnRelease(r) == req[r].pc = "Streaming" /\ req'[r].pc = "Released"

\* C6 (as claimed): a file that an in-flight request is about to stream or
\* is streaming is removed by that request's completion callback only.
C6_OnlyOwnCallbackDeletes ==
    [][\A r \in Slots :
         (HoldsFile(r) /\ dir'[req[r].filename] # "file") => OwnRelease(r)]_vars

\* C6 (amended): such a file is removed only by the request's own callback
\* or by a concurrent request for the same video: that request's callback
\* on the same path, or its mp3 post-processing of that video.
C6_OnlyCallbacksOfSameVideoDelete ==
    [][\A r \in Slots :
         (HoldsFile(r) /\ dir'[req[r].filename] # "file")
            => \/ OwnRelease(r)
               \/ \E r2 \in Slots \ {r} :
                    /\ OwnRelease(r2)
                    /\ req[r2].filename = req[r].filename
               \/ \E r2 \in Slots \ {r} :
                    /\ req[r2].pc = "Fetching" /\ req'[r2].pc = "Finalizing"
                    /\ req[r2].postprocess
                    /\ req'[r2].info.id = req[r].info.id]_vars

\* C6 witness: a request still holds its file after another request, for a
\* different video, has released its own.
C6_Witness ==
    \E r1, r2 \in Slots :
        /\ HoldsFile(r1)
        /\ req[r2].pc = "Released"
        /\ req[r2].info.id # req[r1].info.id

\* Requests that fetched different videos have different paths.
C7_DistinctPaths ==
    \A r1, r2 \in Slots :
        (Fetched(r1) /\ Fetched(r2) /\ req[r1].info.id # req[r2].info.id)
            => req[r1].filename # req[r2].filename

\* A request whose video no other request has fetched finds its file on disk
\* for as long as it is about to stream or streams it.
C7_OwnFileOnDisk ==
    \A r \in Slots :
        (req[r].pc \in {"Finalizing", "Streaming"}
           /\ \A r2 \in Slots \ {r} : req[r2].info.id # req[r].info.id)
            => dir[req[r].filename] = "file"

\* A release changes no entry but the releasing request's own path.
C7_ReleaseTouchesOwnPath ==
    \A r \in Slots :
        OwnRelease(r) =>
            \A n \in Names \ {req[r].filename} : dir'[n] = dir[n]

\* C7: two simultaneous downloads of different videos never collide: their
\* paths, derived from the video's id and extension, differ; each finds its
\* own file on disk to stream; and each release removes only its own path.
C7_DifferentVideosNeverCollide ==
    /\ [](C7_DistinctPaths /\ C7_OwnFileOnDisk)
    /\ [][C7_ReleaseTouchesOwnPath]_vars

\* C7 witness: two requests stream different videos at once, each file on
\* disk.
C7_Witness ==
    \E r1, r2 \in Slots :
        /\ req[r1].pc = "Streaming" /\ req[r2].pc = "Streaming"
        /\ req[r1].info.id # req[r2].info.id
        /\ dir[req[r1].filename] = "file" /\ dir[req[r2].filename] = "file"

\* The managed file of an mp3 request is <id>.mp3, of any other request the
\* extractor's <id>.<ext>.
C8_ManagedPath ==
    \A r \in Slots :
        Fetched(r) =>
            req[r].filename =
                IF req[r].format_type = "mp3" THEN <<req[r].info.id, "mp3">>
                ELSE <<req[r].info.id, req[r].info.ext>>

\* When a stream ends, the managed file is gone.
C8_GoneAfterStreaming ==
    \A r \in Slots : OwnRelease(r) => dir'[req[r].filename] = "absent"

\* C8: the managed file of an mp3 request is the extractor's path with the
\* extension replaced by mp3, whatever the native extension; in every other
\* mode it is the extractor's path unchanged; and when the stream ends that
\* path no longer exists.
C8_Mp3PathStreamedAndReleased ==
    /\ []C8_ManagedPath
    /\ [][C8_GoneAfterStreaming]_vars

\* C8 witness: an mp3 request whose extractor reported a.m4a has streamed
\* and released a.mp3, which is gone.
C8_Witness ==
    \E r \in Slots :
        /\ req[r].pc = "Released" /\ req[r].format_type = "mp3"
        /\ req[r].info = [id |-> "a", ext |-> "m4a"]
        /\ req[r].filename = <<"a", "mp3">>
        /\ dir[<<"a", "mp3">>] = "absent"

\* C9: a failed /info answers 500 with the same generic body whatever the
\* extractor raised, without details; a failed /search and a /download whose
\* fetch failed answer 500 with the extractor's error text in details.
C9_InfoHidesErrorText ==
    /\ (query.ep = "info" /\ query.raised # "")
          => /\ query.status = 500
             /\ query.error = "Could not fetch video info"
             /\ query.details = Absent
    /\ (query.ep = "search" /\ query.raised # "")
          => (query.status = 500 /\ query.details = query.raised)
    /\ \A r \in Slots :
          req[r].raised # "" => (req[r].status = 500 /\ req[r].details = req[r].raised)

\* C9 witness: /info failed on one error text while a /download failed on
\* the other.
C9_Witness ==
    /\ query.ep = "info" /\ query.raised = "Video unavailable"
    /\ \E r \in Slots : req[r].raised = "Sign in to confirm you are not a bot"

\* C10: the cookie file is passed to the extractor iff COOKIES_FILE is set
\* and the file exists; a request that passed validation fails only in or
\* after the fetch, so a missing cookie file by itself fails nothing.
C10_CookiesOptional ==
    \A r \in Slots :
        /\ (PastValidation(r) /\ req[r].status # 400)
              => (req[r].cookiefile <=> cookies = "present")
        /\ (req[r].pc = "Errored" /\ req[r].status # 400) => req[r].fetches = 1
        /\ Fetched(r) => req[r].fetches = 1

\* C10 witness: COOKIES_FILE names a file that does not exist, and a
\* download was fetched without credentials and streamed.
C10_Witness ==
    \E r \in Slots :
        /\ cookies = "missing"
        /\ req[r].pc = "Released" /\ ~req[r].cookiefile /\ req[r].fetches = 1

\* A request has ended.
Done(r) == req[r].pc \in {"Released", "Errored"}

\* How far a request has come.
Rank(pc) ==
    CASE pc = "idle" -> 0
      [] pc = "Validating" -> 1
      [] pc = "Fetching" -> 2
      [] pc = "Finalizing" -> 3
      [] pc = "Streaming" -> 4
      [] OTHER -> 5

\* A request that was taken up and has not ended is at a position that has a
\* step, and the step can be taken whatever became of the other requests and
\* of the directory.  (Validate has no guard but the position.)
C11_NeverStuck ==
    \A r \in Slots :
        (Handled(r) /\ ~Done(r)) =>
            CASE req[r].pc = "Validating" -> phase = "serving"
              [] req[r].pc = "Fetching" -> ENABLED Fetch(r)
              [] req[r].pc = "Finalizing" -> ENABLED SendFile(r)
              [] req[r].pc = "Streaming" -> ENABLED StreamEnd(r, "complete")
              [] OTHER -> FALSE

\* While the service serves, a worker that is free takes the next request,
\* whatever became of the requests before it.
C11_StillAccepts ==
    \A r \in Slots :
        (phase = "serving" /\ req[r].pc = "idle") =>
            \A body \in CoreBodies : ENABLED Receive(r, body)

\* Every step of a request brings it nearer to its end, and the service
\* keeps serving.
C11_Progress ==
    /\ \A r \in Slots :
         req'[r] # req[r] => Rank(req'[r].pc) > Rank(req[r].pc)
    /\ phase = "serving" => phase' = "serving"

\* Under the workers' fairness, every request in flight eventually reaches
\* Released or Errored.
C11_Liveness == \A r \in Slots : InFlight(r) ~> Done(r)

\* C11: every /download request terminates with a response: a request in
\* flight can always take its next step, every step moves it towards
\* Released or Errored, where a response status is set; and the service
\* keeps serving whatever requests ended in an error, later requests taking
\* the same steps.
C11_EveryRequestTerminates ==
    /\ [](C11_NeverStuck)
    /\ [](C11_StillAccepts)
    /\ [](\A r \in Slots : Done(r) => req[r].status \in {200, 400, 500})
    /\ [][C11_Progress]_vars

\* C11 witness: a request is taken up after another ended in an error.
C11_Witness ==
    \E r1, r2 \in Slots :
        /\ req[r1].pc = "Errored" /\ req[r1].status = 500
        /\ req[r2].pc = "Validating"
        /\ phase = "serving"

\* The entries of the adapter that are not None, in the adapter's order.
Resolved(entries) == SelectSeq(entries, LAMBDA v : v # NoEntry)

HasLocation(f) == f.url \notin {PyNone, ""}

\* The entries that have a stream location and whose video codec is not
\* "none", in the adapter's order.
Streamable(formats) ==
    SelectSeq(formats, LAMBDA f : HasLocation(f) /\ f.vcodec # "none")

\* C13: the formats of a /info that answers 200 are exactly the adapter's
\* entries that have a stream location and whose video codec is not "none",
\* in the adapter's order; none of the returned formats lacks a location or
\* is one of the adapter's entries of video codec "none".
C13_InfoFormats ==
    (query.ep = "info" /\ query.status = 200) =>
        /\ Len(query.result) = Len(Streamable(query.raw))
        /\ \A i \in 1..Len(query.result) :
             /\ query.result[i].itag = Streamable(query.raw)[i].format_id
             /\ query.result[i].url = Streamable(query.raw)[i].url
             /\ query.result[i].url \notin {PyNone, ""}
             /\ \A j \in 1..Len(query.raw) :
                  query.raw[j].format_id = query.result[i].itag
                      => query.raw[j].vcodec # "none"

\* C13 witness: the adapter named entries of every kind, and /info returned
\* the two that can be streamed with their video, in their order.
C13_Witness ==
    /\ query.ep = "info" /\ query.status = 200
    /\ Len(query.raw) = 5
    /\ \E j \in 1..Len(query.raw) : query.raw[j].vcodec = "none"
    /\ \E j \in 1..Len(query.raw) : ~HasLocation(query.raw[j])
    /\ Len(query.result) = 2
    /\ query.result[1].itag = "18" /\ query.result[2].itag = "22"

\* The moves of a request.
Moves ==
    { <<"idle", "Validating">>,
      <<"Validating", "Fetching">>, <<"Validating", "Errored">>,
      <<"Fetching", "Finalizing">>, <<"Fetching", "Errored">>,
      <<"Finalizing", "Streaming">>, <<"Finalizing", "Errored">>,
      <<"Streaming", "Released">> }

\* A step moves a request along Moves or leaves its position; a request in
\* Released or Errored is not touched again, and the response of a request
\* in Streaming is not changed by its last step.
C14_Move(r) ==
    /\ req'[r].pc # req[r].pc => <<req[r].pc, req'[r].pc>> \in Moves
    /\ req[r].pc \in {"Released", "Errored"} => req'[r] = req[r]
    /\ req[r].pc = "Streaming" =>
          /\ req'[r].status = req[r].status
          /\ req'[r].error = req[r].error

\* The response that goes with a position.
C14_Response ==
    \A r \in Slots :
        /\ req[r].pc \in {"Streaming", "Released"} =>
              (req[r].status = 200 /\ req[r].error = "")
        /\ req[r].pc = "Errored" =>
              (req[r].status \in {400, 500} /\ req[r].error # "")

\* C14: a /download request moves only along Validating -> Fetching ->
\* Finalizing -> Streaming -> Released; Errored is entered only from
\* Validating, Fetching or Finalizing and is never left; a request in
\* Streaming has answered 200, its only move is to Released, however the
\* stream ends, and Released is never left.
C14_RequestStateMachine ==
    /\ [][\A r \in Slots : C14_Move(r)]_vars
    /\ [](C14_Response)

\* C14 witness: a request whose stream broke off with a transmission error
\* is Released, and another went from Finalizing to Errored because the
\* file was gone when send_file opened it.
C14_Witness ==
    \E r1, r2 \in Slots :
        /\ req[r1].pc = "Released" /\ req[r1].ended = "tx_error"
        /\ req[r1].status = 200
        /\ req[r2].pc = "Errored" /\ req[r2].fetches = 1
        /\ req[r2].filename # NoFile
        /\ req[r2].details = FileNotFoundText

\* The step of request r in which its Fetch fails.
FetchFails(r) == req[r].pc = "Fetching" /\ req'[r].pc = "Errored"

\* The partial file that the failed Fetch of request r left is on disk.
PartialOnDisk(r) ==
    /\ req[r].pc = "Errored"
    /\ req[r].partial # NoFile
    /\ dir[req[r].partial] = "file"

\* When Fetch fails the request answers 500 and goes to Errored, no release
\* is registered or run for it, and the step removes nothing: every entry of
\* the directory stays, and so does what Fetch had written.
C15_FailedFetch(r) ==
    FetchFails(r) =>
        /\ req'[r].status = 500
        /\ req'[r].on_close = 0 /\ req'[r].releases = 0
        /\ \A n \in Names : dir[n] # "absent" => dir'[n] = dir[n]
        /\ req'[r].partial # NoFile => dir'[req'[r].partial] = "file"

\* No release was registered or run for a request in Errored.
C15_NoRelease ==
    \A r \in Slots :
        req[r].pc = "Errored" => (req[r].on_close = 0 /\ req[r].releases = 0)

\* C15 (as claimed): when Fetch fails the request goes to Errored with 500,
\* no release is invoked for it, it removes nothing, and the partial file
\* that Fetch left stays in the directory for the rest of the run, that is
\* until the next Sweep.
C15_PartialStaysUntilSweep ==
    /\ [][\A r \in Slots : C15_FailedFetch(r)]_vars
    /\ [](C15_NoRelease)
    /\ [][\A r \in Slots :
            PartialOnDisk(r) => dir'[req[r].partial] = "file"]_vars

\* C15 (amended): when Fetch fails the request goes to Errored with 500, no
\* release is invoked for it and it removes nothing; the partial file that
\* Fetch left is removed in this run only by another request for the same
\* video: that request's callback on the same path, or its mp3
\* post-processing of that video.
C15_PartialStaysUnlessSameVideo ==
    /\ [][\A r \in Slots : C15_FailedFetch(r)]_vars
    /\ [](C15_NoRelease)
    /\ [][\A r \in Slots :
            (PartialOnDisk(r) /\ dir'[req[r].partial] # "file")
               => \E r2 \in Slots \ {r} :
                    \/ /\ OwnRelease(r2)
                       /\ req[r2].filename = req[r].partial
                    \/ /\ req[r2].pc = "Fetching" /\ req'[r2].pc = "Finalizing"
                       /\ req[r2].postprocess
                       /\ req'[r2].info.id = req[r].partial[1]]_vars

\* C15 witness: a request's Fetch failed and left a partial file; another
\* request, for another video, has been served and released, and the
\* partial file is still there.
C15_Witness ==
    \E r1, r2 \in Slots :
        /\ PartialOnDisk(r1)
        /\ req[r1].status = 500 /\ req[r1].releases = 0
        /\ req[r2].pc = "Released" /\ req[r2].releases = 1
        /\ req[r2].info.id # req[r1].partial[1]

\* While the loop runs it has not been left by an exception, an error was
\* logged for exactly the entries it passed to cleanup_file that are still
\* there, every entry it has not passed yet can be passed, and when none is
\* left app.run can start.
C16_SweepGoesOn ==
    /\ phase # "crashed"
    /\ phase = "sweep" =>
          /\ logged = {n \in swept : dir[n] # "absent"}
          /\ \A n \in listing \ swept : ENABLED SweepStep(n)
          /\ swept = listing => ENABLED AppRun
    /\ phase = "serving" => logged = {n \in Names : dir[n] = "dir"}

\* A failed deletion leaves the loop where it is and the other entries as
\* they are; the service starts when every listed entry has been passed to
\* cleanup_file, whether it could be deleted or not.
C16_SweepStep ==
    /\ (phase = "sweep" /\ logged' # logged) =>
          (phase' = "sweep" /\ dir' = dir /\ listing' = listing
             /\ \E n \in listing \ swept : swept' = swept \cup {n})
    /\ (phase = "sweep" /\ phase' = "serving") =>
          (swept = listing /\ dir' = dir)

\* C16: a failure to delete an entry during the startup Sweep is logged and
\* aborts neither the sweep nor startup: every other entry of the listing is
\* still passed to cleanup_file, and then the service starts.
C16_SweepFailureNotFatal ==
    /\ [](C16_SweepGoesOn)
    /\ [][C16_SweepStep]_vars

\* C16 witness: the loop has passed both entries of the listing; one could
\* not be deleted and was logged, the other was deleted, and app.run is next.
C16_Witness ==
    /\ phase = "sweep" /\ swept = listing
    /\ \E n, m \in listing :
         /\ dir[n] = "dir" /\ n \in logged
         /\ dir[m] = "absent" /\ m \notin logged

\* The download mode of the options that Validate built for request r.
Mode(r) ==
    IF req[r].postprocess /\ req[r].format = "bestaudio/best" THEN "audio-extract"
    ELSE IF ~req[r].postprocess /\ req[r].format = DefaultFormat THEN "video-container"
    ELSE IF ~req[r].postprocess /\ req[r].format = req[r].data.itag
    THEN "explicit-format"
    ELSE "none"

\* C17: for every format and itag of the body of a request that passed
\* validation: format "mp3" selects audio-extract whatever the itag;
\* otherwise an itag that is present and not empty selects explicit-format
\* with that itag as the format; otherwise the default mp4 selection is
\* used; and the media type of the response is audio/mp3 if format is "mp3"
\* and video/mp4 if it is not.
C17_ModePrecedence ==
    \A r \in Slots :
        LET format_type == Get(req[r].data.format, "mp4")
            itag == Get(req[r].data.itag, PyNone)
        IN  /\ (PastValidation(r) /\ req[r].status # 400) =>
                  Mode(r) = IF format_type = "mp3" THEN "audio-extract"
                            ELSE IF itag \notin {PyNone, ""} THEN "explicit-format"
                            ELSE "video-container"
            /\ req[r].pc \in {"Streaming", "Released"} =>
                  /\ req[r].mimetype \in {"audio/mp3", "video/mp4"}
                  /\ req[r].mimetype = "audio/mp3" <=> format_type = "mp3"

\* C17 witness: a request with format "mp3" and an itag was served as
\* audio, and the itag was not used.
C17_Witness ==
    \E r \in Slots :
        /\ req[r].data.format = "mp3" /\ req[r].data.itag = "22"
        /\ req[r].pc = "Released"
        /\ Mode(r) = "audio-extract" /\ req[r].format # "22"
        /\ req[r].mimetype = "audio/mp3"
        /\ req[r].filename[2] = "mp3"

====
